---- MODULE Spec2Model ----
(***************************************************************************)
(* Model of src/rpn_calculator.py: class RPNCalculator (tokenize,           *)
(* is_number, shunting_yard, _should_pop_operator, evaluate_rpn,            *)
(* calculate).                                                              *)
(*                                                                          *)
(* A Python str is a sequence of one-character strings, so "2+3" is         *)
(* <<"2", "+", "3">> and a token list is a sequence of such sequences.      *)
(* A Python float is an exact rational [n |-> numerator, d |-> denominator] *)
(* in lowest terms with d > 0; rounding is not modelled.  A float whose     *)
(* numerator or denominator exceeds MaxMagnitude, and the result of pow     *)
(* with a non-integer exponent (an irrational or complex number), is not    *)
(* tracked: a run that produces one ends in the position "untracked" and    *)
(* nothing is stated about it.                                              *)
(***************************************************************************)
EXTENDS Integers, Sequences, FiniteSets, TLC

\* ------------------------------------------------------------------ bounds
\* longest input string of a direct tokenize call
MaxTokLen == 5
\* longest input string of a direct shunting_yard call
MaxYardLen == 5
\* longest token list of a direct evaluate_rpn call
MaxRpnLen == 5
\* most binary operators in a generated well-formed expression for calculate
MaxOps == 2
\* longest free-form (possibly ill-formed) input string of calculate
MaxRawLen == 4
\* largest numerator or denominator of a tracked float
MaxMagnitude == 30000

\* ------------------------------------------------------------- characters
Digits == {"0", "1", "2", "3", "4", "5", "6", "7", "8", "9"}

DigitVal(c) ==
    CASE c = "0" -> 0 [] c = "1" -> 1 [] c = "2" -> 2 [] c = "3" -> 3
      [] c = "4" -> 4 [] c = "5" -> 5 [] c = "6" -> 6 [] c = "7" -> 7
      [] c = "8" -> 8 [] c = "9" -> 9

\* the characters str.strip() and float() treat as surrounding whitespace
Whitespace == {" ", "\t", "\n"}

\* the character class [()+\-*/^] of token_pattern
SymbolChars == {"(", ")", "+", "-", "*", "/", "^"}

\* ----------------------------------------------------------------- floats
Abs(x) == IF x < 0 THEN -x ELSE x

RECURSIVE Gcd(_, _)
Gcd(a, b) == IF b = 0 THEN a ELSE Gcd(b, a % b)

Untracked == [untracked |-> TRUE]

\* the float n/d, in lowest terms, or Untracked beyond MaxMagnitude
Rat(n, d) ==
    LET g == Gcd(Abs(n), Abs(d))
        s == IF d < 0 THEN -1 ELSE 1
        nn == s * (n \div g)
        dd == s * (d \div g)
    IN  IF Abs(nn) > MaxMagnitude \/ dd > MaxMagnitude
        THEN Untracked
        ELSE [n |-> nn, d |-> dd]

IsTracked(v) == v # Untracked

Zero == [n |-> 0, d |-> 1]

\* b^e for integers b >= 2, e >= 0, saturating at MaxMagnitude + 1
RECURSIVE PowAcc(_, _, _)
PowAcc(acc, b, e) ==
    IF e = 0 THEN acc
    ELSE IF acc * b > MaxMagnitude THEN MaxMagnitude + 1
    ELSE PowAcc(acc * b, b, e - 1)

IntPow(b, e) ==
    IF e = 0 THEN 1
    ELSE IF b = 0 THEN 0
    ELSE IF b = 1 THEN 1
    ELSE PowAcc(1, b, e)

\* operator.add, operator.sub, operator.mul on two floats
FloatAdd(a, b) == Rat(a.n * b.d + b.n * a.d, a.d * b.d)
FloatSub(a, b) == Rat(a.n * b.d - b.n * a.d, a.d * b.d)
FloatMul(a, b) == Rat(a.n * b.n, a.d * b.d)

\* what calling a binary function of the operators table does: it returns a
\* float or raises a Python exception
Returns(v) == [kind |-> "return", value |-> v]
Raises(exc, err) == [kind |-> "raise", exception |-> exc, error |-> err]

\* operator.truediv: float division raises ZeroDivisionError on a zero divisor
FloatTrueDiv(a, b) ==
    IF b.n = 0
    THEN Raises("ZeroDivisionError", "float division by zero")
    ELSE Returns(Rat(a.n * b.d, a.d * b.n))

\* operator.pow on two floats: x ** 0 is 1.0 (also for x = 0); 0.0 to a
\* negative power raises ZeroDivisionError; a non-integer exponent gives an
\* irrational or complex number, which is not tracked
FloatPow(a, b) ==
    IF b.n = 0 THEN Returns([n |-> 1, d |-> 1])
    ELSE IF b.d # 1 THEN Returns(Untracked)
    ELSE IF a.n = 0 /\ b.n < 0
    THEN Raises("ZeroDivisionError", "0.0 cannot be raised to a negative power")
    ELSE LET e == Abs(b.n)
             sign == IF a.n < 0 /\ e % 2 = 1 THEN -1 ELSE 1
             pn == IntPow(Abs(a.n), e)
             pd == IntPow(a.d, e)
         IN  IF pn > MaxMagnitude \/ pd > MaxMagnitude
             THEN Returns(Untracked)
             ELSE IF b.n > 0 THEN Returns(Rat(sign * pn, pd))
             ELSE Returns(Rat(sign * pd, pn))

\* -------------------------------------------------------- operators table
OperatorSymbols == {<<"+">>, <<"-">>, <<"*">>, <<"/">>, <<"^">>}

\* self.operators: precedence and associativity of each operator symbol
operators ==
    [t \in OperatorSymbols |->
        CASE t = <<"+">> -> [precedence |-> 1, associativity |-> "left"]
          [] t = <<"-">> -> [precedence |-> 1, associativity |-> "left"]
          [] t = <<"*">> -> [precedence |-> 2, associativity |-> "left"]
          [] t = <<"/">> -> [precedence |-> 2, associativity |-> "left"]
          [] t = <<"^">> -> [precedence |-> 3, associativity |-> "right"]]

\* self.operators[token]['function'](op1, op2)
OperatorFunction(token, op1, op2) ==
    CASE token = <<"+">> -> Returns(FloatAdd(op1, op2))
      [] token = <<"-">> -> Returns(FloatSub(op1, op2))
      [] token = <<"*">> -> Returns(FloatMul(op1, op2))
      [] token = <<"/">> -> FloatTrueDiv(op1, op2)
      [] token = <<"^">> -> FloatPow(op1, op2)

\* ---------------------------------------------------------------- tokenize
\* the end of the longest run of digits of s that starts at position i
\* (i itself when s[i] is no digit)
RECURSIVE DigitsEnd(_, _)
DigitsEnd(s, i) ==
    IF i <= Len(s) /\ s[i] \in Digits THEN DigitsEnd(s, i + 1) ELSE i

\* faulty variant: the pattern \d+(\.\d+)?, which takes a point only before digits
NumberEndPointNeedsDigits(s, i) ==
    LET a == DigitsEnd(s, i)
    IN  IF a < Len(s) /\ s[a] = "." /\ s[a + 1] \in Digits
        THEN DigitsEnd(s, a + 1)
        ELSE a

\* the end of the greedy match of \d+\.?\d* at position i, where s[i] is a
\* digit: the digits, a point when one follows, the digits after it if any
NumberEnd(s, i) ==
    LET a == DigitsEnd(s, i)
    IN  IF a <= Len(s) /\ s[a] = "." THEN DigitsEnd(s, a + 1) ELSE a

\* re.findall(token_pattern, expression) scanning from position i: the
\* leftmost match is taken, a character that starts no match is skipped
RECURSIVE FindAll(_, _)
FindAll(s, i) ==
    IF i > Len(s) THEN <<>>
    ELSE IF s[i] \in Digits
    THEN LET e == NumberEnd(s, i)
         IN  <<SubSeq(s, i, e - 1)>> \o FindAll(s, e)
    ELSE IF s[i] \in SymbolChars
    THEN <<(<<s[i]>>)>> \o FindAll(s, i + 1)
    ELSE FindAll(s, i + 1)

tokenize(expression) == FindAll(expression, 1)

\* --------------------------------------------------------------- is_number
RECURSIVE LStrip(_)
LStrip(s) ==
    IF s # <<>> /\ Head(s) \in Whitespace THEN LStrip(Tail(s)) ELSE s

RECURSIVE RStrip(_)
RStrip(s) ==
    IF s # <<>> /\ s[Len(s)] \in Whitespace
    THEN RStrip(SubSeq(s, 1, Len(s) - 1))
    ELSE s

\* the sign and the unsigned body of a float literal
FloatSign(s) == IF s # <<>> /\ Head(s) = "-" THEN -1 ELSE 1
FloatBody(s) == IF s # <<>> /\ Head(s) \in {"+", "-"} THEN Tail(s) ELSE s

\* the body of a decimal float literal: digits with at most one point and at
\* least one digit (the model's strings hold no exponent, "inf", "nan" or "_")
IsDecimalBody(b) ==
    /\ \A k \in 1..Len(b) : b[k] \in Digits \cup {"."}
    /\ Cardinality({k \in 1..Len(b) : b[k] = "."}) <= 1
    /\ \E k \in 1..Len(b) : b[k] \in Digits

\* float(token) succeeds: surrounding whitespace and one sign are accepted
is_number(token) == IsDecimalBody(FloatBody(RStrip(LStrip(token))))

\* the digits of b (the point skipped) read as a decimal integer, saturating
RECURSIVE DigitsValue(_, _)
DigitsValue(b, acc) ==
    IF b = <<>> THEN acc
    ELSE IF Head(b) = "." THEN DigitsValue(Tail(b), acc)
    ELSE IF acc > MaxMagnitude THEN acc
    ELSE DigitsValue(Tail(b), 10 * acc + DigitVal(Head(b)))

\* float(token) for a token is_number accepts
float(token) ==
    LET t == RStrip(LStrip(token))
        b == FloatBody(t)
        p == CHOOSE k \in 1..(Len(b) + 1) :
                 IF \E q \in 1..Len(b) : b[q] = "."
                 THEN k <= Len(b) /\ b[k] = "."
                 ELSE k = Len(b) + 1
        fracDigits == IF p > Len(b) THEN 0 ELSE Len(b) - p
        num == DigitsValue(b, 0)
        den == IntPow(10, fracDigits)
    IN  IF num > MaxMagnitude \/ den > MaxMagnitude
        THEN Untracked
        ELSE Rat(FloatSign(t) * num, den)

\* ---------------------------------------------------------- error messages
\* the message of each ValueError the class raises, by the kind it reports
EmptyExpression == "EmptyExpression"              \* "Пустое выражение"
UnbalancedParentheses == "UnbalancedParentheses"  \* "Несбалансированные скобки"
InsufficientOperands == "InsufficientOperands"    \* "Недостаточно операндов..."
DivisionByZero == "DivisionByZero"                \* "Деление на ноль"
UnknownToken == "UnknownToken"                    \* "Неизвестный токен: ..."
MalformedExpression == "MalformedExpression"      \* "Некорректное выражение"

NoOutcome == [kind |-> "none"]
UntrackedOutcome == [kind |-> "untracked"]

\* ------------------------------------------------------------ list helpers
Top(stack) == stack[Len(stack)]
Pop(stack) == SubSeq(stack, 1, Len(stack) - 1)

\* ------------------------------------------------- _should_pop_operator
\* faulty variant: equal precedence always pops (associativity ignored)
ShouldPopIgnoringAssociativity(current_op, stack_top) ==
    IF stack_top \notin DOMAIN operators THEN FALSE
    ELSE operators[stack_top].precedence >= operators[current_op].precedence

\* faulty variant: only a strictly higher precedence pops
ShouldPopStrictlyHigher(current_op, stack_top) ==
    IF stack_top \notin DOMAIN operators THEN FALSE
    ELSE operators[stack_top].precedence > operators[current_op].precedence

_should_pop_operator(current_op, stack_top) ==
    IF stack_top \notin DOMAIN operators THEN FALSE
    ELSE LET current_prec == operators[current_op].precedence
             stack_prec == operators[stack_top].precedence
             current_assoc == operators[current_op].associativity
         IN  \/ stack_prec > current_prec
             \/ (stack_prec = current_prec /\ current_assoc = "left")

\* ------------------------------------------------------------ shunting_yard
\* The locals of one shunting_yard call.  pos is the index of the token the
\* for loop is at (past the end once the loop is over); at is "run" while
\* the call runs, "return" or "raise" once it has ended.
SYInit(expression) ==
    [tokens |-> tokenize(expression), pos |-> 1, output |-> <<>>,
     operator_stack |-> <<>>, at |-> "run", outcome |-> NoOutcome]

SYToken(s) == s.tokens[s.pos]
SYInFor(s) == s.at = "run" /\ s.pos <= Len(s.tokens)
SYAfterFor(s) == s.at = "run" /\ s.pos > Len(s.tokens)

SYRaise(s) ==
    [s EXCEPT !.at = "raise",
              !.outcome = Raises("ValueError", UnbalancedParentheses)]

\* if self.is_number(token): output.append(token)
SYNumberGuard(s) == SYInFor(s) /\ is_number(SYToken(s))
SYNumber(s) == [s EXCEPT !.output = Append(@, SYToken(s)), !.pos = @ + 1]

\* elif token in self.operators: one iteration of the while loop
SYIsOperator(s) ==
    SYInFor(s) /\ ~is_number(SYToken(s)) /\ SYToken(s) \in DOMAIN operators
SYWhileCondition(s) ==
    /\ s.operator_stack # <<>>
    /\ Top(s.operator_stack) # <<"(">>
    /\ _should_pop_operator(SYToken(s), Top(s.operator_stack))
SYOperatorPopGuard(s) == SYIsOperator(s) /\ SYWhileCondition(s)
SYOperatorPop(s) ==
    [s EXCEPT !.output = Append(@, Top(s.operator_stack)),
              !.operator_stack = Pop(@)]

\* the while loop is over: operator_stack.append(token)
SYOperatorPushGuard(s) == SYIsOperator(s) /\ ~SYWhileCondition(s)
SYOperatorPush(s) ==
    [s EXCEPT !.operator_stack = Append(@, SYToken(s)), !.pos = @ + 1]

\* elif token == '(': operator_stack.append(token)
SYIsOpenParen(s) ==
    /\ SYInFor(s) /\ ~is_number(SYToken(s))
    /\ SYToken(s) \notin DOMAIN operators
    /\ SYToken(s) = <<"(">>
SYOpenParenGuard(s) == SYIsOpenParen(s)
SYOpenParen(s) ==
    [s EXCEPT !.operator_stack = Append(@, SYToken(s)), !.pos = @ + 1]

\* elif token == ')': one iteration of the while loop
SYIsCloseParen(s) ==
    /\ SYInFor(s) /\ ~is_number(SYToken(s))
    /\ SYToken(s) \notin DOMAIN operators
    /\ SYToken(s) # <<"(">>
    /\ SYToken(s) = <<")">>
SYCloseParenPopGuard(s) ==
    /\ SYIsCloseParen(s)
    /\ s.operator_stack # <<>>
    /\ Top(s.operator_stack) # <<"(">>
\* faulty variant: the popped operator is not appended to the output
SYCloseParenPopLosesOperator(s) == [s EXCEPT !.operator_stack = Pop(@)]

SYCloseParenPop(s) ==
    [s EXCEPT !.output = Append(@, Top(s.operator_stack)),
              !.operator_stack = Pop(@)]

\* the while loop is over on an open paren: operator_stack.pop()
SYCloseParenDiscardGuard(s) ==
    /\ SYIsCloseParen(s)
    /\ s.operator_stack # <<>>
    /\ Top(s.operator_stack) = <<"(">>
SYCloseParenDiscard(s) ==
    [s EXCEPT !.operator_stack = Pop(@), !.pos = @ + 1]

\* the while loop is over on an empty stack: raise ValueError
SYCloseParenRaiseGuard(s) == SYIsCloseParen(s) /\ s.operator_stack = <<>>
SYCloseParenRaise(s) == SYRaise(s)

\* a token of no class falls through the if/elif chain
SYPassGuard(s) ==
    /\ SYInFor(s) /\ ~is_number(SYToken(s))
    /\ SYToken(s) \notin DOMAIN operators
    /\ SYToken(s) \notin {<<"(">>, <<")">>}
SYPass(s) == [s EXCEPT !.pos = @ + 1]

\* faulty variant: only a close paren left on the stack is reported
InParensCloseOnly(x) == x = <<")">>

\* x in '()': the substrings of "()"
InParens(x) == x \in {<<>>, <<"(">>, <<")">>, <<"(", ")">>}

\* while operator_stack: if operator_stack[-1] in '()': raise ValueError
SYDrainRaiseGuard(s) ==
    /\ SYAfterFor(s)
    /\ s.operator_stack # <<>>
    /\ InParens(Top(s.operator_stack))
SYDrainRaise(s) == SYRaise(s)

\* while operator_stack: output.append(operator_stack.pop())
SYDrainPopGuard(s) ==
    /\ SYAfterFor(s)
    /\ s.operator_stack # <<>>
    /\ ~InParens(Top(s.operator_stack))
SYDrainPop(s) ==
    [s EXCEPT !.output = Append(@, Top(s.operator_stack)),
              !.operator_stack = Pop(@)]

\* return output
SYReturnGuard(s) == SYAfterFor(s) /\ s.operator_stack = <<>>
SYReturn(s) == [s EXCEPT !.at = "return", !.outcome = Returns(s.output)]

\* the one step a running call takes
SYStep(s) ==
    CASE SYNumberGuard(s) -> SYNumber(s)
      [] SYOperatorPopGuard(s) -> SYOperatorPop(s)
      [] SYOperatorPushGuard(s) -> SYOperatorPush(s)
      [] SYOpenParenGuard(s) -> SYOpenParen(s)
      [] SYCloseParenPopGuard(s) -> SYCloseParenPop(s)
      [] SYCloseParenDiscardGuard(s) -> SYCloseParenDiscard(s)
      [] SYCloseParenRaiseGuard(s) -> SYCloseParenRaise(s)
      [] SYPassGuard(s) -> SYPass(s)
      [] SYDrainRaiseGuard(s) -> SYDrainRaise(s)
      [] SYDrainPopGuard(s) -> SYDrainPop(s)
      [] SYReturnGuard(s) -> SYReturn(s)

RECURSIVE SYRun(_)
SYRun(s) == IF s.at # "run" THEN s ELSE SYRun(SYStep(s))

\* the outcome of shunting_yard(expression): the RPN token list or the error
shunting_yard(expression) == SYRun(SYInit(expression)).outcome

\* ------------------------------------------------------------- evaluate_rpn
\* The locals of one evaluate_rpn call; pos is the index of the token the
\* for loop is at.
EvalInit(rpn_expression) ==
    [rpn_expression |-> rpn_expression, pos |-> 1, stack |-> <<>>,
     at |-> "run", outcome |-> NoOutcome]

EvalToken(e) == e.rpn_expression[e.pos]
EvalInFor(e) == e.at = "run" /\ e.pos <= Len(e.rpn_expression)
EvalAfterFor(e) == e.at = "run" /\ e.pos > Len(e.rpn_expression)

\* if self.is_number(token): stack.append(float(token))
EvalNumberGuard(e) == EvalInFor(e) /\ is_number(EvalToken(e))
EvalNumber(e) ==
    IF IsTracked(float(EvalToken(e)))
    THEN [e EXCEPT !.stack = Append(@, float(EvalToken(e))), !.pos = @ + 1]
    ELSE [e EXCEPT !.at = "untracked", !.outcome = UntrackedOutcome]

EvalIsOperator(e) ==
    EvalInFor(e) /\ ~is_number(EvalToken(e)) /\ EvalToken(e) \in DOMAIN operators

\* if len(stack) < 2: raise ValueError
EvalInsufficientGuard(e) == EvalIsOperator(e) /\ Len(e.stack) < 2
EvalInsufficient(e) ==
    [e EXCEPT !.at = "raise",
              !.outcome = Raises("ValueError", InsufficientOperands)]

\* op2 = stack.pop(); op1 = stack.pop()
EvalOp2(e) == e.stack[Len(e.stack)]
\* faulty variant: the left operand read from the top of the stack
EvalOp1FromTop(e) == e.stack[Len(e.stack)]

EvalOp1(e) == e.stack[Len(e.stack) - 1]
EvalPopped(e) == SubSeq(e.stack, 1, Len(e.stack) - 2)

\* if token == '/' and op2 == 0: raise ValueError
\* faulty variant: the zero test made for every operator
EvalDivisionTestAnyOperator(token, op2) == op2 = Zero

EvalDivisionTest(token, op2) == token = <<"/">> /\ op2 = Zero
EvalDivisionByZeroGuard(e) ==
    /\ EvalIsOperator(e) /\ Len(e.stack) >= 2
    /\ EvalDivisionTest(EvalToken(e), EvalOp2(e))
EvalDivisionByZero(e) ==
    [e EXCEPT !.stack = EvalPopped(e), !.at = "raise",
              !.outcome = Raises("ValueError", DivisionByZero)]

\* result = self.operators[token]['function'](op1, op2); stack.append(result)
EvalApplyGuard(e) ==
    /\ EvalIsOperator(e) /\ Len(e.stack) >= 2
    /\ ~EvalDivisionTest(EvalToken(e), EvalOp2(e))
EvalApply(e) ==
    LET r == OperatorFunction(EvalToken(e), EvalOp1(e), EvalOp2(e))
    IN  IF r.kind = "raise"
        THEN [e EXCEPT !.stack = EvalPopped(e), !.at = "raise", !.outcome = r]
        ELSE IF ~IsTracked(r.value)
        THEN [e EXCEPT !.stack = EvalPopped(e), !.at = "untracked",
                       !.outcome = UntrackedOutcome]
        ELSE [e EXCEPT !.stack = Append(EvalPopped(e), r.value), !.pos = @ + 1]

\* else: raise ValueError
EvalUnknownGuard(e) ==
    EvalInFor(e) /\ ~is_number(EvalToken(e)) /\ EvalToken(e) \notin DOMAIN operators
EvalUnknown(e) ==
    [e EXCEPT !.at = "raise", !.outcome = Raises("ValueError", UnknownToken)]

\* faulty variant: only an empty stack is reported
EvalStackTestEmptyOnly(stack) == Len(stack) = 0

\* the test len(stack) != 1 of the end of the call
EvalStackTest(stack) == Len(stack) # 1

\* if len(stack) != 1: raise ValueError
EvalMalformedGuard(e) == EvalAfterFor(e) /\ EvalStackTest(e.stack)
EvalMalformed(e) ==
    [e EXCEPT !.at = "raise",
              !.outcome = Raises("ValueError", MalformedExpression)]

\* return stack[0]
EvalReturnGuard(e) == EvalAfterFor(e) /\ ~EvalStackTest(e.stack)
EvalReturn(e) == [e EXCEPT !.at = "return", !.outcome = Returns(e.stack[1])]

EvalStep(e) ==
    CASE EvalNumberGuard(e) -> EvalNumber(e)
      [] EvalInsufficientGuard(e) -> EvalInsufficient(e)
      [] EvalDivisionByZeroGuard(e) -> EvalDivisionByZero(e)
      [] EvalApplyGuard(e) -> EvalApply(e)
      [] EvalUnknownGuard(e) -> EvalUnknown(e)
      [] EvalMalformedGuard(e) -> EvalMalformed(e)
      [] EvalReturnGuard(e) -> EvalReturn(e)

RECURSIVE EvalRun(_)
EvalRun(e) == IF e.at # "run" THEN e ELSE EvalRun(EvalStep(e))

\* the outcome of evaluate_rpn(rpn_expression)
evaluate_rpn(rpn_expression) == EvalRun(EvalInit(rpn_expression)).outcome

\* ---------------------------------------------------------------- calculate
\* faulty variant: expression.strip(' '), which leaves the interior spaces
StripSpaces(s) ==
    LET inner == {k \in 1..Len(s) : s[k] # " "}
    IN  IF inner = {} THEN <<>>
        ELSE SubSeq(s, CHOOSE a \in inner : \A b \in inner : a <= b,
                       CHOOSE a \in inner : \A b \in inner : b <= a)

\* expression.replace(' ', '')
RECURSIVE ReplaceSpaces(_)
ReplaceSpaces(s) ==
    IF s = <<>> THEN <<>>
    ELSE IF Head(s) = " " THEN ReplaceSpaces(Tail(s))
    ELSE <<Head(s)>> \o ReplaceSpaces(Tail(s))

\* the outcome of calculate(expression)
calculate(expression) ==
    LET stripped == ReplaceSpaces(expression)
    IN  IF stripped = <<>> THEN Raises("ValueError", EmptyExpression)
        ELSE LET rpn == shunting_yard(stripped)
             IN  IF rpn.kind = "raise" THEN rpn ELSE evaluate_rpn(rpn.value)

\* ------------------------------------------------------------------- inputs
\* all sequences over S of length at most n
SeqsUpTo(S, n) == UNION {[1..k -> S] : k \in 0..n}

\* the characters of the strings a direct tokenize call is given
TokenizeChars == {"1", "2", ".", "+", "(", "a", " "}
TokenizeInputs == SeqsUpTo(TokenizeChars, MaxTokLen)

\* the characters of the strings a direct shunting_yard call is given
YardChars == {"1", "2", "+", "*", "^", "(", ")"}
YardInputs == SeqsUpTo(YardChars, MaxYardLen)

\* the tokens of the lists a direct evaluate_rpn call is given: two number
\* literals, the five operators and a token that is neither
RpnTokens == {<<"0">>, <<"2">>, <<"(">>} \cup OperatorSymbols
RpnInputs == SeqsUpTo(RpnTokens, MaxRpnLen)

\* well-formed infix expressions for calculate: k binary operators between
\* k + 1 one-digit literals ...
ExprLiterals == {"2", "3"}
ExprOperators == {"+", "-", "*", "/", "^"}

RECURSIVE FlatExpressions(_)
FlatExpressions(k) ==
    IF k = 0 THEN {<<l>> : l \in ExprLiterals}
    ELSE {f \o <<o, l>> : f \in FlatExpressions(k - 1),
                          o \in ExprOperators, l \in ExprLiterals}

\* ... with, optionally, one pair of parentheses around the operands i..j
Parenthesised(f, i, j) ==
    SubSeq(f, 1, 2 * i - 2) \o <<"(">> \o SubSeq(f, 2 * i - 1, 2 * j - 1)
        \o <<")">> \o SubSeq(f, 2 * j, Len(f))

WellFormedOf(f) ==
    LET operands == (Len(f) + 1) \div 2
        ranges == {r \in (1..operands) \X (1..operands) : r[1] <= r[2]}
    IN  {f} \cup {Parenthesised(f, r[1], r[2]) : r \in ranges}

WellFormedExpressions ==
    UNION {WellFormedOf(f) : f \in UNION {FlatExpressions(k) : k \in 0..MaxOps}}

\* free-form strings for calculate: short strings of a digit, an operator,
\* the parentheses, a space and a tab
RawChars == {"2", "+", "(", ")", " ", "\t"}
RawInputs == SeqsUpTo(RawChars, MaxRawLen)

CalculateInputs == WellFormedExpressions \cup RawInputs

\* -------------------------------------------------------------------- state
VARIABLES
    call,        \* the public method called
    arg,         \* its argument
    pc,          \* "call", "shunting_yard", "evaluate_rpn" or "done"
    expression,  \* calculate's local after the replace
    sy,          \* the locals of the shunting_yard call
    ev,          \* the locals of the evaluate_rpn call
    result       \* what the public method returned or raised

vars == <<call, arg, pc, expression, sy, ev, result>>

Idle == [at |-> "idle"]

InitCall(method, inputs) ==
    /\ call = method
    /\ arg \in inputs
    /\ pc = "call"
    /\ expression = <<>>
    /\ sy = Idle
    /\ ev = Idle
    /\ result = NoOutcome

InitTokenize == InitCall("tokenize", TokenizeInputs)
InitShuntingYard == InitCall("shunting_yard", YardInputs)
InitEvaluateRpn == InitCall("evaluate_rpn", RpnInputs)
InitCalculate == InitCall("calculate", CalculateInputs)

\* ------------------------------------------------------------------ actions
\* tokenize(arg) called directly
CallTokenize ==
    /\ pc = "call" /\ call = "tokenize"
    /\ result' = Returns(tokenize(arg))
    /\ pc' = "done"
    /\ UNCHANGED <<call, arg, expression, sy, ev>>

\* shunting_yard(arg) called directly: tokens, output, operator_stack are set
CallShuntingYard ==
    /\ pc = "call" /\ call = "shunting_yard"
    /\ sy' = SYInit(arg)
    /\ pc' = "shunting_yard"
    /\ UNCHANGED <<call, arg, expression, ev, result>>

\* evaluate_rpn(arg) called directly: stack = []
CallEvaluateRpn ==
    /\ pc = "call" /\ call = "evaluate_rpn"
    /\ ev' = EvalInit(arg)
    /\ pc' = "evaluate_rpn"
    /\ UNCHANGED <<call, arg, expression, sy, result>>

\* calculate(arg): the replace leaves nothing, raise ValueError
CalculateEmpty ==
    /\ pc = "call" /\ call = "calculate"
    /\ expression' = ReplaceSpaces(arg)
    /\ expression' = <<>>
    /\ result' = Raises("ValueError", EmptyExpression)
    /\ pc' = "done"
    /\ UNCHANGED <<call, arg, sy, ev>>

\* calculate(arg): the replace leaves something, shunting_yard(expression)
CalculateShuntingYard ==
    /\ pc = "call" /\ call = "calculate"
    /\ expression' = ReplaceSpaces(arg)
    /\ expression' # <<>>
    /\ sy' = SYInit(expression')
    /\ pc' = "shunting_yard"
    /\ UNCHANGED <<call, arg, ev, result>>

\* After a step of the running shunting_yard call: when it raised, the error
\* propagates to the caller; when it returned, shunting_yard called directly
\* is done and calculate passes the output to evaluate_rpn.
YardContinue ==
    /\ IF sy'.at = "raise"
       THEN pc' = "done" /\ result' = sy'.outcome /\ ev' = ev
       ELSE IF sy'.at = "return" /\ call = "calculate"
       THEN pc' = "evaluate_rpn" /\ ev' = EvalInit(sy'.output) /\ result' = result
       ELSE IF sy'.at = "return"
       THEN pc' = "done" /\ result' = sy'.outcome /\ ev' = ev
       ELSE UNCHANGED <<pc, result, ev>>
    /\ UNCHANGED <<call, arg, expression>>

YardNumber ==
    /\ pc = "shunting_yard" /\ SYNumberGuard(sy)
    /\ sy' = SYNumber(sy)
    /\ YardContinue

YardOperatorPop ==
    /\ pc = "shunting_yard" /\ SYOperatorPopGuard(sy)
    /\ sy' = SYOperatorPop(sy)
    /\ YardContinue

YardOperatorPush ==
    /\ pc = "shunting_yard" /\ SYOperatorPushGuard(sy)
    /\ sy' = SYOperatorPush(sy)
    /\ YardContinue

YardOpenParen ==
    /\ pc = "shunting_yard" /\ SYOpenParenGuard(sy)
    /\ sy' = SYOpenParen(sy)
    /\ YardContinue

YardCloseParenPop ==
    /\ pc = "shunting_yard" /\ SYCloseParenPopGuard(sy)
    /\ sy' = SYCloseParenPop(sy)
    /\ YardContinue

YardCloseParenDiscard ==
    /\ pc = "shunting_yard" /\ SYCloseParenDiscardGuard(sy)
    /\ sy' = SYCloseParenDiscard(sy)
    /\ YardContinue

YardCloseParenRaise ==
    /\ pc = "shunting_yard" /\ SYCloseParenRaiseGuard(sy)
    /\ sy' = SYCloseParenRaise(sy)
    /\ YardContinue

YardDrainRaise ==
    /\ pc = "shunting_yard" /\ SYDrainRaiseGuard(sy)
    /\ sy' = SYDrainRaise(sy)
    /\ YardContinue

YardDrainPop ==
    /\ pc = "shunting_yard" /\ SYDrainPopGuard(sy)
    /\ sy' = SYDrainPop(sy)
    /\ YardContinue

YardReturn ==
    /\ pc = "shunting_yard" /\ SYReturnGuard(sy)
    /\ sy' = SYReturn(sy)
    /\ YardContinue

\* After a step of the running evaluate_rpn call: what it returns or raises
\* is what its caller (the test, or calculate) returns or raises.
RpnContinue ==
    /\ IF ev'.at # "run"
       THEN pc' = "done" /\ result' = ev'.outcome
       ELSE UNCHANGED <<pc, result>>
    /\ UNCHANGED <<call, arg, expression, sy>>

RpnNumber ==
    /\ pc = "evaluate_rpn" /\ EvalNumberGuard(ev)
    /\ ev' = EvalNumber(ev)
    /\ RpnContinue

RpnInsufficient ==
    /\ pc = "evaluate_rpn" /\ EvalInsufficientGuard(ev)
    /\ ev' = EvalInsufficient(ev)
    /\ RpnContinue

RpnDivisionByZero ==
    /\ pc = "evaluate_rpn" /\ EvalDivisionByZeroGuard(ev)
    /\ ev' = EvalDivisionByZero(ev)
    /\ RpnContinue

RpnApply ==
    /\ pc = "evaluate_rpn" /\ EvalApplyGuard(ev)
    /\ ev' = EvalApply(ev)
    /\ RpnContinue

RpnUnknown ==
    /\ pc = "evaluate_rpn" /\ EvalUnknownGuard(ev)
    /\ ev' = EvalUnknown(ev)
    /\ RpnContinue

RpnMalformed ==
    /\ pc = "evaluate_rpn" /\ EvalMalformedGuard(ev)
    /\ ev' = EvalMalformed(ev)
    /\ RpnContinue

RpnReturn ==
    /\ pc = "evaluate_rpn" /\ EvalReturnGuard(ev)
    /\ ev' = EvalReturn(ev)
    /\ RpnContinue

\* ----------------------------------------------------------- specifications
NextYard ==
    \/ YardNumber \/ YardOperatorPop \/ YardOperatorPush \/ YardOpenParen
    \/ YardCloseParenPop \/ YardCloseParenDiscard \/ YardCloseParenRaise
    \/ YardDrainRaise \/ YardDrainPop \/ YardReturn

NextRpn ==
    \/ RpnNumber \/ RpnInsufficient \/ RpnDivisionByZero \/ RpnApply
    \/ RpnMalformed \/ RpnReturn

\* tokenize called on every string of TokenizeInputs
NextTokenize == CallTokenize
SpecTokenize == InitTokenize /\ [][NextTokenize]_vars

\* shunting_yard called on every string of YardInputs
NextShuntingYard == CallShuntingYard \/ NextYard
SpecShuntingYard == InitShuntingYard /\ [][NextShuntingYard]_vars

\* evaluate_rpn called on every token list of RpnInputs
NextEvaluateRpn == CallEvaluateRpn \/ NextRpn \/ RpnUnknown
SpecEvaluateRpn == InitEvaluateRpn /\ [][NextEvaluateRpn]_vars

\* calculate called on every string of CalculateInputs (the RPN calculate
\* passes on holds numbers and operators only, so RpnUnknown cannot happen)
NextCalculate == CalculateEmpty \/ CalculateShuntingYard \/ NextYard \/ NextRpn
SpecCalculate == InitCalculate /\ [][NextCalculate]_vars

\* =================================================================== claims

\* -------------------------------------------------------------------- C7
Concat(tokens) ==
    LET F[k \in 0..Len(tokens)] == IF k = 0 THEN <<>> ELSE F[k - 1] \o tokens[k]
    IN  F[Len(tokens)]

AllDigits(t) == \A k \in 1..Len(t) : t[k] \in Digits

\* one or more digits, optionally followed by a point and one or more digits
IsStrictNumber(t) ==
    \/ t # <<>> /\ AllDigits(t)
    \/ \E p \in 2..(Len(t) - 1) :
          /\ t[p] = "."
          /\ AllDigits(SubSeq(t, 1, p - 1))
          /\ AllDigits(SubSeq(t, p + 1, Len(t)))

\* one or more digits, optionally followed by a point and zero or more digits
IsPointedNumber(t) ==
    \/ IsStrictNumber(t)
    \/ Len(t) >= 2 /\ t[Len(t)] = "." /\ AllDigits(SubSeq(t, 1, Len(t) - 1))

IsSymbol(t) == Len(t) = 1 /\ t[1] \in SymbolChars

\* the start of the run of digits that ends at position k
RECURSIVE RunStart(_, _)
RunStart(s, k) == IF k > 1 /\ s[k - 1] \in Digits THEN RunStart(s, k - 1) ELSE k

\* the point at position k directly follows the digits that open a number
\* (digits that do not themselves follow a point taken into a number)
RECURSIVE PointTaken(_, _)
PointTaken(s, k) ==
    /\ s[k] = "."
    /\ k > 1 /\ s[k - 1] \in Digits
    /\ LET a == RunStart(s, k - 1)
       IN  ~(a > 1 /\ s[a - 1] = "." /\ PointTaken(s, a - 1))

\* the point at position k stands between digits of one number
PointBetweenDigits(s, k) == PointTaken(s, k) /\ k < Len(s) /\ s[k + 1] \in Digits

Kept(s, keepPoint(_, _)) ==
    LET F[k \in 0..Len(s)] ==
            IF k = 0 THEN <<>>
            ELSE IF s[k] \in Digits \cup SymbolChars \/ keepPoint(s, k)
            THEN Append(F[k - 1], s[k])
            ELSE F[k - 1]
    IN  F[Len(s)]

\* C7 as stated: tokenize never fails; every token is digits with an optional
\* point-and-digits part, or one symbol; the tokens concatenate to the input
\* without its other characters, a point not followed by digits among them.
C7_AsStated ==
    (pc = "done" /\ call = "tokenize") =>
        /\ result.kind = "return"
        /\ \A k \in 1..Len(result.value) :
              IsStrictNumber(result.value[k]) \/ IsSymbol(result.value[k])
        /\ Concat(result.value) = Kept(arg, PointBetweenDigits)

\* C7 amended: a number token is digits, optionally a point, and zero or more
\* digits, so a point right after the digits that open a number is kept in
\* the token even when no digit follows it ("2." is one token); every other
\* character that is no digit and no symbol is dropped.
C7_TokenizeKeepsTrailingPoint ==
    (pc = "done" /\ call = "tokenize") =>
        /\ result.kind = "return"
        /\ \A k \in 1..Len(result.value) :
              IsPointedNumber(result.value[k]) \/ IsSymbol(result.value[k])
        /\ Concat(result.value) = Kept(arg, PointTaken)

C7_Witness ==
    /\ pc = "done" /\ call = "tokenize"
    /\ arg = <<"1", ".", "a", "2", " ">>
    /\ result = Returns(<< <<"1", ".">>, <<"2">> >>)

\* -------------------------------------------------------------------- C4
WithoutSpaces(s) == SelectSeq(s, LAMBDA c : c # " ")
WithoutWhitespace(s) == SelectSeq(s, LAMBDA c : c \notin Whitespace)

\* C4 as stated: the outcome of calculate(e) is the outcome of calculate on e
\* with every whitespace character removed, and is the empty-expression error
\* when nothing is left.
C4_AsStated ==
    (pc = "done" /\ call = "calculate") =>
        /\ result = calculate(WithoutWhitespace(arg))
        /\ WithoutWhitespace(arg) = <<>> =>
               result = Raises("ValueError", EmptyExpression)

\* C4 amended: calculate removes every space character (and only spaces), so
\* the outcome of calculate(e) is the outcome of calculate on e with every
\* space removed, and is the empty-expression error when nothing is left.
C4_SpacesRemoved ==
    (pc = "done" /\ call = "calculate") =>
        /\ result = calculate(WithoutSpaces(arg))
        /\ WithoutSpaces(arg) = <<>> =>
               result = Raises("ValueError", EmptyExpression)

C4_Witness ==
    /\ pc = "done" /\ call = "calculate"
    /\ arg = <<"2", " ", "+", "2">>
    /\ result = Returns([n |-> 4, d |-> 1])

\* -------------------------------------------------------------------- C1
\* The value of a well-formed expression by recursive descent on the string:
\* split at the operator outside all parentheses that binds loosest (the
\* rightmost + or -, else the rightmost * or /, else the leftmost ^), else
\* open the enclosing parentheses, else read the literal.
RefUndefined == [undefined |-> TRUE]

RefApply(o, a, b) ==
    IF a = RefUndefined \/ b = RefUndefined THEN RefUndefined
    ELSE IF a = Untracked \/ b = Untracked THEN Untracked
    ELSE IF o = "+" THEN FloatAdd(a, b)
    ELSE IF o = "-" THEN FloatSub(a, b)
    ELSE IF o = "*" THEN FloatMul(a, b)
    ELSE IF o = "/" THEN (IF b.n = 0 THEN RefUndefined ELSE Rat(a.n * b.d, a.d * b.n))
    ELSE IF FloatPow(a, b).kind = "raise" THEN RefUndefined
    ELSE FloatPow(a, b).value

RefDepth(s, lo, k) ==
    Cardinality({p \in lo..(k - 1) : s[p] = "("})
        - Cardinality({p \in lo..(k - 1) : s[p] = ")"})

SetMax(S) == CHOOSE x \in S : \A y \in S : y <= x
SetMin(S) == CHOOSE x \in S : \A y \in S : x <= y

RECURSIVE RefEval(_, _, _)
RefEval(s, lo, hi) ==
    LET outer == {k \in lo..hi : s[k] \in ExprOperators /\ RefDepth(s, lo, k) = 0}
        additive == {k \in outer : s[k] \in {"+", "-"}}
        multiplicative == {k \in outer : s[k] \in {"*", "/"}}
        powers == {k \in outer : s[k] = "^"}
        split == IF additive # {} THEN SetMax(additive)
                 ELSE IF multiplicative # {} THEN SetMax(multiplicative)
                 ELSE IF powers # {} THEN SetMin(powers)
                 ELSE 0
    IN  IF split # 0
        THEN RefApply(s[split], RefEval(s, lo, split - 1), RefEval(s, split + 1, hi))
        ELSE IF s[lo] = "(" THEN RefEval(s, lo + 1, hi - 1)
        ELSE Rat(DigitVal(s[lo]), 1)

RefValue(s) == RefEval(s, 1, Len(s))

\* C1: on a well-formed expression calculate returns the value the expression
\* has under standard precedence and associativity (^ tightest and
\* right-associative, then * /, then + -, both left-associative, parentheses
\* overriding), and fails exactly when the expression has no value (a division
\* by zero, or zero raised to a negative power).
C1_CalculateMatchesReference ==
    (pc = "done" /\ call = "calculate" /\ arg \in WellFormedExpressions
        /\ result.kind # "untracked" /\ RefValue(arg) # Untracked) =>
        IF RefValue(arg) = RefUndefined
        THEN result.kind = "raise"
        ELSE result = Returns(RefValue(arg))

C1_Witness ==
    /\ pc = "done" /\ call = "calculate"
    /\ arg = <<"2", "^", "3", "^", "2">>
    /\ result = Returns([n |-> 512, d |-> 1])

\* -------------------------------------------------------------------- C2
C2_Precedence(t) == operators[t].precedence
C2_LeftAssociative(t) == operators[t].associativity = "left"

\* the rule as the claim words it, for stack top s and arriving operator op
C2_PopsFirst(s, op) ==
    /\ s # <<"(">>
    /\ \/ C2_Precedence(s) > C2_Precedence(op)
       \/ C2_Precedence(s) = C2_Precedence(op) /\ C2_LeftAssociative(op)

C2_Step ==
    (pc = "shunting_yard" /\ SYIsOperator(sy)) =>
        IF sy.operator_stack # <<>> /\ C2_PopsFirst(Top(sy.operator_stack), SYToken(sy))
        THEN /\ sy'.output = Append(sy.output, Top(sy.operator_stack))
             /\ sy'.operator_stack = Pop(sy.operator_stack)
             /\ sy'.pos = sy.pos
        ELSE /\ sy'.output = sy.output
             /\ sy'.operator_stack = Append(sy.operator_stack, SYToken(sy))
             /\ sy'.pos = sy.pos + 1

\* s is a1 o a2 o ... o an, n >= 2, of one-digit operands
C2_IsChain(s, o) ==
    /\ Len(s) >= 3 /\ Len(s) % 2 = 1
    /\ \A k \in 1..Len(s) : IF k % 2 = 1 THEN s[k] \in Digits ELSE s[k] = o

\* a1 a2 o a3 o ... an o
C2_LeftChain(s) ==
    LET F[k \in 1..Len(s)] ==
            IF k = 1 THEN << <<s[1]>> >>
            ELSE IF k % 2 = 1 THEN F[k - 1] \o << <<s[k]>>, <<s[k - 1]>> >>
            ELSE F[k - 1]
    IN  F[Len(s)]

\* a1 a2 ... an o o ... o
C2_RightChain(s) ==
    [k \in 1..Len(s) |->
        IF k <= (Len(s) + 1) \div 2 THEN <<s[2 * k - 1]>> ELSE <<s[2]>>]

C2_Chains ==
    (sy # Idle /\ sy.at = "return") =>
        /\ \A o \in {"+", "-", "*", "/"} :
              C2_IsChain(expression, o) => sy.output = C2_LeftChain(expression)
        /\ C2_IsChain(expression, "^") => sy.output = C2_RightChain(expression)

\* C2: when an operator op arrives, the stack top s is popped to the output
\* before op is pushed exactly when s is no open parenthesis and s has higher
\* precedence, or equal precedence with op left-associative; so a chain of one
\* left-associative operator converts to a1 a2 op a3 op ... an op and a chain
\* of ^ to all operands followed by all the operators.
C2_PopRuleAndChains == []C2_Chains /\ [][C2_Step]_vars

C2_Witness ==
    /\ call = "calculate" /\ sy # Idle /\ sy.at = "return"
    /\ expression = <<"2", "-", "3", "-", "2">>
    /\ sy.output = << <<"2">>, <<"3">>, <<"-">>, <<"2">>, <<"-">> >>

\* -------------------------------------------------------------------- C3
\* the parentheses of s are balanced: no prefix closes more than it opens,
\* and the whole string closes all it opens
C3_Balanced(s) ==
    /\ \A k \in 1..(Len(s) + 1) : RefDepth(s, 1, k) >= 0
    /\ RefDepth(s, 1, Len(s) + 1) = 0

\* C3: shunting_yard fails with the unbalanced-parentheses error exactly when
\* the parentheses of its input are unbalanced (a close paren with no open one
\* before it, or an open paren never closed), and fails in no other way: a
\* balanced input converts, even an otherwise ill-formed one.
C3_UnbalancedIffRaise ==
    (pc = "done" /\ call = "shunting_yard") =>
        /\ result.kind \in {"return", "raise"}
        /\ result.kind = "raise" <=> ~C3_Balanced(arg)
        /\ result.kind = "raise" =>
               result = Raises("ValueError", UnbalancedParentheses)

C3_Witness ==
    /\ pc = "done" /\ call = "shunting_yard"
    /\ arg = <<"(", "1", "+", "2">>
    /\ result = Raises("ValueError", UnbalancedParentheses)

\* ------------------------------------------------------------------- C10
Count(x, seq) == Cardinality({k \in 1..Len(seq) : seq[k] = x})
IsParen(t) == t \in {<<"(">>, <<")">>}
NumbersOf(seq) == SelectSeq(seq, LAMBDA t : ~IsParen(t) /\ t \notin OperatorSymbols)

\* C10: at every step each token of the consumed prefix that is no
\* parenthesis is in exactly one of the output and the operator stack, and the
\* stack holds no close paren; when the call returns the stack is empty and
\* the output is the numbers and operators of the input, none lost or
\* repeated, no parenthesis among them, the numbers in their input order.
C10_YardConservesTokens ==
    (call = "shunting_yard" /\ sy # Idle) =>
        LET consumed == SubSeq(sy.tokens, 1, sy.pos - 1)
            seen == {sy.tokens[k] : k \in 1..Len(sy.tokens)}
                        \cup {sy.output[k] : k \in 1..Len(sy.output)}
                        \cup {sy.operator_stack[k] : k \in 1..Len(sy.operator_stack)}
        IN  /\ \A t \in seen :
                  IF IsParen(t)
                  THEN Count(t, sy.output) = 0
                  ELSE Count(t, consumed)
                           = Count(t, sy.output) + Count(t, sy.operator_stack)
            /\ Count(<<")">>, sy.operator_stack) = 0
            /\ sy.at = "return" =>
                  /\ sy.pos = Len(sy.tokens) + 1
                  /\ sy.operator_stack = <<>>
                  /\ NumbersOf(sy.output) = NumbersOf(sy.tokens)
                  /\ result = Returns(sy.output)

C10_Witness ==
    /\ pc = "done" /\ call = "shunting_yard"
    /\ arg = <<"(", "1", "+", "2", ")">>
    /\ result = Returns(<< <<"1">>, <<"2">>, <<"+">> >>)

\* -------------------------------------------------------------------- C5
C5_DivisionByZero == Raises("ValueError", DivisionByZero)

\* the loop is at a '/' with two or more values on the stack, the top one zero
C5_DividesByZero ==
    /\ pc = "evaluate_rpn" /\ EvalInFor(ev)
    /\ EvalToken(ev) = <<"/">>
    /\ Len(ev.stack) >= 2
    /\ ev.stack[Len(ev.stack)].n = 0

C5_Step ==
    /\ C5_DividesByZero =>
          /\ pc' = "done" /\ result' = C5_DivisionByZero
          /\ ev'.stack = SubSeq(ev.stack, 1, Len(ev.stack) - 2)
    /\ (result' = C5_DivisionByZero /\ result # C5_DivisionByZero) =>
          C5_DividesByZero

C5_ZeroDividend ==
    (pc = "done" /\ arg = << <<"0">>, <<"2">>, <<"/">> >>) =>
        result = Returns(Zero)

\* C5: a '/' processed with two or more values on the stack and the right
\* operand zero fails with the division-by-zero error, the two operands popped
\* and no result pushed; nothing else produces that error (a '/' with a
\* non-zero right operand does not, no other operator does), and 0 / 2 is 0.
C5_DivisionByZeroExactly == []C5_ZeroDividend /\ [][C5_Step]_vars

C5_Witness ==
    /\ pc = "done" /\ call = "evaluate_rpn"
    /\ arg = << <<"2">>, <<"0">>, <<"/">> >>
    /\ result = C5_DivisionByZero
    /\ ev.stack = <<>>

\* -------------------------------------------------------------------- C6
C6_ErrorKinds ==
    {InsufficientOperands, DivisionByZero, UnknownToken, MalformedExpression}

\* C6: evaluate_rpn returns one number or fails with one of the four error
\* kinds InsufficientOperands, DivisionByZero, UnknownToken,
\* MalformedExpression; no call ends in another kind of failure.
C6_OnlyFourErrorKinds ==
    (pc = "done" /\ call = "evaluate_rpn" /\ result.kind # "untracked") =>
        \/ result.kind = "return"
        \/ /\ result.kind = "raise"
           /\ result.exception = "ValueError"
           /\ result.error \in C6_ErrorKinds

\* -------------------------------------------------------------------- C8
C8_AtOperator ==
    /\ pc = "evaluate_rpn" /\ EvalInFor(ev)
    /\ EvalToken(ev) \in OperatorSymbols

\* a op b for the operators that cannot fail
C8_Value(token, a, b) ==
    CASE token = <<"+">> -> FloatAdd(a, b)
      [] token = <<"-">> -> FloatSub(a, b)
      [] token = <<"*">> -> FloatMul(a, b)
      [] token = <<"/">> -> Rat(a.n * b.d, a.d * b.n)
      [] token = <<"^">> -> FloatPow(a, b).value

C8_Step ==
    C8_AtOperator =>
        LET n == Len(ev.stack)
            a == ev.stack[n - 1]
            b == ev.stack[n]
        IN  IF n < 2
            THEN /\ pc' = "done"
                 /\ result' = Raises("ValueError", InsufficientOperands)
                 /\ ev'.stack = ev.stack
            ELSE /\ result' # Raises("ValueError", InsufficientOperands)
                 /\ ev'.at = "run" =>
                        /\ ev'.stack = Append(SubSeq(ev.stack, 1, n - 2),
                                              C8_Value(EvalToken(ev), a, b))
                        /\ ev'.pos = ev.pos + 1

\* the error of a failed call is the error of the first token that offends:
\* every token before the one the call stopped at was processed
C8_LeftMinusRight ==
    (pc = "done" /\ arg = << <<"2">>, <<"0">>, <<"-">> >>) =>
        result = Returns([n |-> 2, d |-> 1])

C8_FirstOffender ==
    (pc = "done" /\ call = "evaluate_rpn" /\ result.kind = "raise") =>
        /\ result.error = InsufficientOperands =>
               /\ ev.pos <= Len(arg) /\ arg[ev.pos] \in OperatorSymbols
               /\ Len(ev.stack) < 2
        /\ arg = << <<"0">>, <<"/">> >> =>
               result = Raises("ValueError", InsufficientOperands)

\* C8: an operator processed with fewer than two values on the stack fails
\* with the insufficient-operands error before anything is popped and before
\* the division-by-zero test; with two values the last pushed is the right
\* operand b, the one below it the left operand a, and f(a, b) is pushed.
C8_OperandCheckFirst ==
    []C8_FirstOffender /\ []C8_LeftMinusRight /\ [][C8_Step]_vars

C8_Witness ==
    /\ pc = "done" /\ call = "evaluate_rpn"
    /\ arg = << <<"0">>, <<"/">> >>
    /\ result = Raises("ValueError", InsufficientOperands)
    /\ ev.stack = <<Zero>>

\* -------------------------------------------------------------------- C9
\* C9: evaluate_rpn returns only when every token was processed and the stack
\* holds exactly one value, which is the result; when every token was
\* processed and the stack holds no value or more than one, it fails with the
\* malformed-expression error (and only then).
C9_ExactlyOneValue ==
    (pc = "done" /\ call = "evaluate_rpn") =>
        LET finished == ev.pos = Len(arg) + 1 /\ ev.at # "untracked"
        IN  /\ result.kind = "return" =>
                  /\ finished
                  /\ Len(ev.stack) = 1
                  /\ result.value = ev.stack[1]
            /\ (finished /\ Len(ev.stack) # 1) <=>
                  result = Raises("ValueError", MalformedExpression)
            /\ arg = <<>> => result = Raises("ValueError", MalformedExpression)

C9_Witness ==
    /\ pc = "done" /\ call = "evaluate_rpn"
    /\ arg = << <<"2">>, <<"0">> >>
    /\ result = Raises("ValueError", MalformedExpression)
    /\ Len(ev.stack) = 2

====
